---- MODULE Spec2Model ----
(***************************************************************************)
(* Simulator selection, configuration and post-run artifact handling of    *)
(* bench/setup_vunit.py (classes Simulator, NVC, GHDL and the function     *)
(* select_simulator) together with the helper setup_simulator of           *)
(* bench/utils.py.                                                         *)
(*                                                                         *)
(* The operating environment is the search path (which executables         *)
(* shutil.which resolves), the environment variable VUNIT_SIMULATOR and    *)
(* the files under the session output directory and the result directory.  *)
(* The VUnit session is the external object the methods write options to.  *)
(* Every method is one action; the result of the last call (exception,     *)
(* returned value, subprocesses started, which() probes, messages) is kept *)
(* in the variable out.  Directory creation and file copies that the code  *)
(* does not guard are taken to succeed.                                    *)
(***************************************************************************)
EXTENDS Integers, Sequences, FiniteSets, TLC

VARIABLES path, environ, simulator, VU, fs, out

vars == <<path, environ, simulator, VU, fs, out>>

\* Number of per-test output directories the session output tree may hold.
MaxTests == 2

None == "None"

NVC == "nvc"

GHDL == "ghdl"

NVC_UNISIM_PATH == <<"~", ".nvc/lib/unisim.08">>

NVC_UNIFAST_PATH == <<"~", ".nvc/lib/unifast.08">>

GHDL_UNISIM_PATH == <<"~", ".ghdl/xilinx-vivado/unisim/v08">>

GHDL_UNIFAST_PATH == <<"~", ".ghdl/xilinx-vivado/unifast/v08">>

\* Executables the code looks up on the search path.
Executables == {"nvc", "ghdl", "vsim"}

\* Values VUNIT_SIMULATOR may hold when the process starts.
EnvValues == {None, "nvc", "ghdl"}

\* Names a caller may hand to select_simulator.
Names == {None, "nvc", "ghdl", "NVC", "Ghdl", "modelsim", "vsim"}

Tests == 1..MaxTests

---------------------------------------------------------------------------
\* The state of the session object and of the files before any call.

NoPath == <<>>

NoFlags == <<>>

NewSession ==
    [nvc_global_flags |-> NoFlags,
     nvc_elab_flags |-> NoFlags,
     ghdl_a_flags |-> NoFlags,
     ghdl_sim_flags |-> NoFlags,
     ghdl_elab_flags |-> NoFlags,
     run_all_in_same_sim |-> "unset",
     unisim |-> NoPath,
     unifast |-> NoPath,
     lib_coverage |-> FALSE]

NoFile == <<>>

\* The files the simulators read and write.  outlogs, ncdb, spec_file,
\* coverage_dir (coverage_report), coverage_info and html_report live under
\* the session output path; result_log (output.txt), result_ncdb
\* (coverage.ncdb) and result_report (coverage_report) under result_dir.
EmptyFs ==
    [outlogs |-> {},
     ncdb |-> FALSE,
     spec_file |-> NoFile,
     coverage_dir |-> FALSE,
     coverage_info |-> FALSE,
     html_report |-> FALSE,
     result_dir |-> FALSE,
     result_log |-> 0,
     result_ncdb |-> FALSE,
     result_report |-> FALSE]

NoSimulator ==
    [kind |-> None,
     enable_coverage |-> FALSE,
     uses_unisim |-> FALSE,
     uses_unifast |-> FALSE,
     VU |-> None]

Outcome(op, arg, env) ==
    [op |-> op, arg |-> arg, error |-> None, stderr |-> None, ret |-> None,
     calls |-> <<>>, exits |-> <<>>, probes |-> <<>>, log |-> <<>>,
     envBefore |-> env]

---------------------------------------------------------------------------
\* Simulator construction and selection.

which(cmd) == cmd \in path

\* str.lower on the names a caller may pass.
lower(name) ==
    CASE name = "NVC" -> "nvc"
      [] name = "Ghdl" -> "ghdl"
      [] OTHER -> name

simulator_in_path(kind) == which(kind)

set_os_environment(kind) == kind

Init_fields(kind) ==
    [kind |-> kind,
     enable_coverage |-> FALSE,
     uses_unisim |-> FALSE,
     uses_unifast |-> FALSE,
     VU |-> None]

\* A constructor that writes the environment before it checks the executable.
Simulator_init_env_first(kind, env) ==
    IF simulator_in_path(kind)
    THEN [error |-> None, self |-> Init_fields(kind),
          environ |-> set_os_environment(kind), probes |-> <<kind>>]
    ELSE [error |-> "SystemExit", self |-> NoSimulator,
          environ |-> set_os_environment(kind), probes |-> <<kind>>]

Simulator_init(kind, env) ==
    IF simulator_in_path(kind)
    THEN [error |-> None, self |-> Init_fields(kind),
          environ |-> set_os_environment(kind), probes |-> <<kind>>]
    ELSE [error |-> "SystemExit", self |-> NoSimulator,
          environ |-> env, probes |-> <<kind>>]

\* Autodetection that prefers ghdl.
autodetect_ghdl_first ==
    IF which("ghdl")
    THEN [name |-> GHDL, probes |-> <<"ghdl">>]
    ELSE IF which("nvc")
         THEN [name |-> NVC, probes |-> <<"ghdl", "nvc">>]
         ELSE [name |-> None, probes |-> <<"ghdl", "nvc">>]

autodetect ==
    IF which("nvc")
    THEN [name |-> NVC, probes |-> <<"nvc">>]
    ELSE IF which("ghdl")
         THEN [name |-> GHDL, probes |-> <<"nvc", "ghdl">>]
         ELSE [name |-> None, probes |-> <<"nvc", "ghdl">>]

\* A dispatch that builds the default backend for a name it does not know.
dispatch_default_nvc(name, env) ==
    IF lower(name) = GHDL THEN Simulator_init(GHDL, env) ELSE Simulator_init(NVC, env)

dispatch(name, env) ==
    IF lower(name) = NVC
    THEN Simulator_init(NVC, env)
    ELSE IF lower(name) = GHDL
         THEN Simulator_init(GHDL, env)
         ELSE [error |-> "ValueError", self |-> NoSimulator,
               environ |-> env, probes |-> <<>>]

select_simulator(simulator_name, env) ==
    LET found == IF simulator_name = None
                 THEN autodetect
                 ELSE [name |-> simulator_name, probes |-> <<>>]
    IN  IF found.name = None
        THEN [error |-> "SystemExit", self |-> NoSimulator,
              environ |-> env, probes |-> found.probes]
        ELSE LET made == dispatch(found.name, env)
             IN  [made EXCEPT !.probes = found.probes \o made.probes]

\* The process stops on SystemExit: nothing runs after it.
Running == out.error # "SystemExit"

SelectSimulator(name) ==
    /\ Running
    /\ simulator.kind = None
    /\ LET r == select_simulator(name, environ)
       IN  /\ simulator' = r.self
           /\ environ' = r.environ
           /\ out' = [Outcome("select_simulator", name, environ) EXCEPT
                         !.error = r.error,
                         !.ret = r.self.kind,
                         !.probes = r.probes]
    /\ UNCHANGED <<path, VU, fs>>

\* setup_simulator of utils.py: the name found on the search path is returned,
\* and VUNIT_SIMULATOR is written only when it is not already set.  With no
\* executable found the call sys.exit(status=1) passes a keyword to a function
\* that takes none, which raises TypeError.
setup_simulator(env) ==
    LET found == IF which("nvc") THEN "nvc"
                 ELSE IF which("ghdl") THEN "ghdl"
                 ELSE IF which("vsim") THEN "modelsim"
                 ELSE None
    IN  IF found = None
        THEN [error |-> "TypeError", ret |-> None, environ |-> env]
        ELSE [error |-> None, ret |-> found,
              environ |-> IF env = None THEN found ELSE env]

SetupSimulator ==
    /\ Running
    /\ simulator.kind = None
    /\ out.op # "setup_simulator"
    /\ LET r == setup_simulator(environ)
       IN  /\ environ' = r.environ
           /\ out' = [Outcome("setup_simulator", None, environ) EXCEPT
                         !.error = r.error,
                         !.ret = r.ret]
    /\ UNCHANGED <<path, simulator, VU, fs>>


---------------------------------------------------------------------------
\* External libraries.

Session == "VU"

HOME == "/home/user"

expanduser(p) == IF p # NoPath /\ Head(p) = "~" THEN <<HOME>> \o Tail(p) ELSE p

\* A default that ignores the backend.
DEFAULT_UNISIM_PATH_shared(kind) == NVC_UNISIM_PATH

DEFAULT_UNISIM_PATH(kind) == IF kind = NVC THEN NVC_UNISIM_PATH ELSE GHDL_UNISIM_PATH

DEFAULT_UNIFAST_PATH(kind) == IF kind = NVC THEN NVC_UNIFAST_PATH ELSE GHDL_UNIFAST_PATH

\* Paths a caller may hand to add_unisim_library / add_unifast_library;
\* NoPath stands for None and for the empty string, which "or" treats alike.
LibraryPaths == {NoPath, <<"~", "xilinx/lib">>}

\* A None session is dereferenced at VU.add_external_library.
add_library(vu, session, library_name, library_path) ==
    IF session = None
    THEN [error |-> "AttributeError", VU |-> vu]
    ELSE [error |-> None,
          VU |-> IF library_name = "unisim"
                 THEN [vu EXCEPT !.unisim = expanduser(library_path)]
                 ELSE [vu EXCEPT !.unifast = expanduser(library_path)]]

add_unisim_library(self, vu, session, unisim_path) ==
    LET p == IF unisim_path # NoPath THEN unisim_path ELSE DEFAULT_UNISIM_PATH(self.kind)
        r == add_library(vu, session, "unisim", p)
    IN  IF r.error # None
        THEN [error |-> r.error, self |-> self, VU |-> vu]
        ELSE [error |-> None, self |-> [self EXCEPT !.uses_unisim = TRUE], VU |-> r.VU]

add_unifast_library(self, vu, session, unifast_path) ==
    LET p == IF unifast_path # NoPath THEN unifast_path ELSE DEFAULT_UNIFAST_PATH(self.kind)
        r == add_library(vu, session, "unifast", p)
    IN  IF r.error # None
        THEN [error |-> r.error, self |-> self, VU |-> vu]
        ELSE [error |-> None, self |-> [self EXCEPT !.uses_unifast = TRUE], VU |-> r.VU]

Selected == Running /\ simulator.kind # None

\* The driver configures the session before it hands control to VU.main,
\* which runs the tests, calls post_run and ends the process.
Configuring == Selected /\ out.op \notin {"main", "post_run"}

AddUnisimLibrary(unisim_path) ==
    /\ Configuring
    /\ LET r == add_unisim_library(simulator, VU, Session, unisim_path)
       IN  /\ simulator' = r.self
           /\ VU' = r.VU
           /\ out' = [Outcome("add_unisim_library", Session, environ) EXCEPT
                         !.error = r.error]
    /\ UNCHANGED <<path, environ, fs>>

AddUnifastLibrary(unifast_path) ==
    /\ Configuring
    /\ LET r == add_unifast_library(simulator, VU, Session, unifast_path)
       IN  /\ simulator' = r.self
           /\ VU' = r.VU
           /\ out' = [Outcome("add_unifast_library", Session, environ) EXCEPT
                         !.error = r.error]
    /\ UNCHANGED <<path, environ, fs>>

\* Library names that have no DEFAULT_*_PATH on either backend.
LibraryNames == {"secureip", "unimacro"}

\* Simulator.add_library called with library_path None: os.path.expanduser
\* rejects None before the session is used.
add_library_without_path(vu, session, library_name) ==
    [error |-> "TypeError", VU |-> vu]

AddLibrary(library_name) ==
    /\ Configuring
    /\ LET r == add_library_without_path(VU, Session, library_name)
       IN  /\ VU' = r.VU
           /\ out' = [Outcome("add_library", library_name, environ) EXCEPT
                         !.error = r.error]
    /\ UNCHANGED <<path, environ, simulator, fs>>

---------------------------------------------------------------------------
\* configure.

\* NVC.configure that tolerates a missing session.
NVC_configure_silent(self, vu, session) ==
    IF session = None
    THEN [error |-> None, self |-> self, VU |-> vu]
    ELSE [error |-> None, self |-> self,
          VU |-> [vu EXCEPT
                    !.nvc_global_flags = <<"--ieee-warnings=off-at-0">>,
                    !.run_all_in_same_sim =
                        IF ~self.enable_coverage THEN "false" ELSE @]]

\* NVC.configure that stores the session, as GHDL.configure does.
NVC_configure_binding(self, vu, session) ==
    IF session = None
    THEN [error |-> "AttributeError", self |-> [self EXCEPT !.VU = session], VU |-> vu]
    ELSE [error |-> None, self |-> [self EXCEPT !.VU = session],
          VU |-> [vu EXCEPT
                    !.nvc_global_flags = <<"--ieee-warnings=off-at-0">>,
                    !.run_all_in_same_sim =
                        IF ~self.enable_coverage THEN "false" ELSE @]]

\* NVC.configure that separates the simulations whatever enable_coverage is.
NVC_configure_separate(self, vu, session) ==
    IF session = None
    THEN [error |-> "AttributeError", self |-> self, VU |-> vu]
    ELSE [error |-> None, self |-> self,
          VU |-> [vu EXCEPT
                    !.nvc_global_flags = <<"--ieee-warnings=off-at-0">>,
                    !.run_all_in_same_sim = "false"]]

\* A None session is dereferenced at the first VU.set_sim_option.
NVC_configure(self, vu, session) ==
    IF session = None
    THEN [error |-> "AttributeError", self |-> self, VU |-> vu]
    ELSE [error |-> None, self |-> self,
          VU |-> [vu EXCEPT
                    !.nvc_global_flags = <<"--ieee-warnings=off-at-0">>,
                    !.run_all_in_same_sim =
                        IF ~self.enable_coverage THEN "false" ELSE @]]

\* GHDL.configure stores the session before it first uses it.
GHDL_configure(self, vu, session) ==
    LET bound == [self EXCEPT !.VU = session]
    IN  IF session = None
        THEN [error |-> "AttributeError", self |-> bound, VU |-> vu]
        ELSE [error |-> None, self |-> bound,
              VU |-> [vu EXCEPT
                        !.ghdl_a_flags =
                            IF self.uses_unisim \/ self.uses_unifast
                            THEN <<"--warn-no-hide">> \o <<"-fsynopsys", "-frelaxed">>
                            ELSE <<"--warn-no-hide">>,
                        !.ghdl_sim_flags = <<"--asserts=disable-at-0">>,
                        !.ghdl_elab_flags =
                            IF self.uses_unisim \/ self.uses_unifast
                            THEN <<"-fsynopsys", "-frelaxed">>
                            ELSE @]]

configure(self, vu, session) ==
    IF self.kind = NVC
    THEN NVC_configure(self, vu, session)
    ELSE GHDL_configure(self, vu, session)

Configure ==
    /\ Configuring
    /\ LET r == configure(simulator, VU, Session)
       IN  /\ simulator' = r.self
           /\ VU' = r.VU
           /\ out' = [Outcome("configure", Session, environ) EXCEPT !.error = r.error]
    /\ UNCHANGED <<path, environ, fs>>

---------------------------------------------------------------------------
\* setup_coverage.

\* Rule lists a caller may hand to NVC.setup_coverage; given = FALSE is None.
Specifications ==
    {[given |-> FALSE, rules |-> <<>>]} \cup
    {[given |-> TRUE, rules |-> r] :
        r \in {<<>>, <<"+hierarchy A.B.*">>,
               <<"+hierarchy A.B.*", "-hierarchy A.B.C.*">>,
               <<"-hierarchy A.B.C.*", "+hierarchy A.B.*">>}}

\* A join that puts nothing between the lines.
join_flat(lines) == lines

RECURSIVE join(_)
\* "\n".join(lines), as the sequence of its pieces.
join(lines) ==
    IF lines = <<>> THEN <<>>
    ELSE IF Len(lines) = 1 THEN <<lines[1]>>
    ELSE <<lines[1], "\n">> \o join(Tail(lines))

COVER_FLAG == "--cover=statement,branch,expression,fsm-state,count-from-undefined,exclude-unreachable"

COVER_FILE_FLAG == "--cover-file=vunit_out/coverage.ncdb"

COVER_SPEC_FLAG == "--cover-spec=vunit_out/coverage.spec"

\* A setup_coverage that changes nothing when the write fails.
NVC_setup_coverage_atomic(self, vu, files, session, specifications, write_fails) ==
    LET marked == [self EXCEPT !.enable_coverage = TRUE, !.VU = session]
        shared == [vu EXCEPT !.run_all_in_same_sim = "true"]
        coverage_flags == <<COVER_FLAG, COVER_FILE_FLAG>>
    IN  IF session = None
        THEN [error |-> "AttributeError", self |-> marked, VU |-> vu, fs |-> files]
        ELSE IF specifications.given /\ specifications.rules # <<>>
        THEN IF write_fails
             THEN [error |-> "RuntimeError", self |-> self, VU |-> vu, fs |-> files]
             ELSE [error |-> None, self |-> marked,
                   VU |-> [shared EXCEPT !.nvc_elab_flags =
                              coverage_flags \o <<COVER_SPEC_FLAG>>],
                   fs |-> [files EXCEPT !.spec_file =
                              join(specifications.rules) \o <<"\n">>]]
        ELSE [error |-> None, self |-> marked,
              VU |-> [shared EXCEPT !.nvc_elab_flags = coverage_flags],
              fs |-> files]

\* self.enable_coverage and self.VU are written before the session is first
\* used; the flags are applied last, so a failed write of the specification
\* file leaves nvc.elab_flags as it was.
NVC_setup_coverage(self, vu, files, session, specifications, write_fails) ==
    LET marked == [self EXCEPT !.enable_coverage = TRUE, !.VU = session]
        shared == [vu EXCEPT !.run_all_in_same_sim = "true"]
        coverage_flags == <<COVER_FLAG, COVER_FILE_FLAG>>
    IN  IF session = None
        THEN [error |-> "AttributeError", self |-> marked, VU |-> vu, fs |-> files]
        ELSE IF specifications.given /\ specifications.rules # <<>>
        THEN IF write_fails
             THEN [error |-> "RuntimeError", self |-> marked, VU |-> shared, fs |-> files]
             ELSE [error |-> None, self |-> marked,
                   VU |-> [shared EXCEPT !.nvc_elab_flags =
                              coverage_flags \o <<COVER_SPEC_FLAG>>],
                   fs |-> [files EXCEPT !.spec_file =
                              join(specifications.rules) \o <<"\n">>]]
        ELSE [error |-> None, self |-> marked,
              VU |-> [shared EXCEPT !.nvc_elab_flags = coverage_flags],
              fs |-> files]

\* libraries is the (LIB_SRC, LIB_BENCH) pair, or None.
GHDL_setup_coverage(self, vu, files, session, libraries) ==
    IF libraries = None
    THEN [error |-> "ValueError", self |-> self, VU |-> vu, fs |-> files]
    ELSE [error |-> None,
          self |-> [self EXCEPT !.enable_coverage = TRUE, !.VU = session],
          VU |-> [vu EXCEPT !.lib_coverage = TRUE],
          fs |-> files]

SetupCoverageNVC(specifications, write_fails) ==
    /\ Configuring
    /\ simulator.kind = NVC
    /\ LET r == NVC_setup_coverage(simulator, VU, fs, Session, specifications, write_fails)
       IN  /\ simulator' = r.self
           /\ VU' = r.VU
           /\ fs' = r.fs
           /\ out' = [Outcome("setup_coverage", None, environ) EXCEPT !.error = r.error]
    /\ UNCHANGED <<path, environ>>

SetupCoverageGHDL(libraries) ==
    /\ Configuring
    /\ simulator.kind = GHDL
    /\ LET r == GHDL_setup_coverage(simulator, VU, fs, Session, libraries)
       IN  /\ simulator' = r.self
           /\ VU' = r.VU
           /\ fs' = r.fs
           /\ out' = [Outcome("setup_coverage", None, environ) EXCEPT !.error = r.error]
    /\ UNCHANGED <<path, environ>>

---------------------------------------------------------------------------
\* The simulation run of VU.main: the tests write their output.txt files and
\* the engine may write the coverage database.

Simulate(logs, database) ==
    /\ Selected
    /\ out.op # "post_run"
    /\ fs.outlogs = {}
    /\ ~fs.ncdb
    /\ fs' = [fs EXCEPT !.outlogs = logs, !.ncdb = database]
    /\ out' = Outcome("main", None, environ)
    /\ UNCHANGED <<path, environ, simulator, VU>>

---------------------------------------------------------------------------
\* post_run.

\* Outcomes of an external process: exit code and what it wrote to stderr.
ProcessResults == {[exit |-> 0, stderr |-> ""], [exit |-> 1, stderr |-> "diagnostic"]}

\* Toolchain backends results._simulator_if._backend may report.
Backends == {"gcc", "llvm", "mcode"}

\* subprocess.run(check=True): a non-zero exit raises CalledProcessError, whose
\* stderr attribute holds the text only when the output was captured.
run(capture_output, proc) ==
    IF proc.exit = 0
    THEN [error |-> None, stderr |-> None]
    ELSE [error |-> "CalledProcessError",
          stderr |-> IF capture_output THEN proc.stderr ELSE None]

\* first is the file the directory enumeration lists first.
copy_output_log(self, files, first) ==
    IF self.VU = None
    THEN files
    ELSE IF files.outlogs # {}
         THEN [files EXCEPT !.result_dir = TRUE, !.result_log = first]
         ELSE files

\* A report step that starts the subprocess without looking for the database.
NVC_generate_coverage_report_unchecked(self, files, proc) ==
    LET made == [files EXCEPT !.coverage_dir = TRUE]
        r == run(FALSE, proc)
    IN  IF r.error = None
        THEN [error |-> None, stderr |-> None, calls |-> <<"nvc --cover-report">>,
              exits |-> <<proc.exit>>, log |-> <<>>,
              fs |-> [made EXCEPT !.result_dir = TRUE, !.result_ncdb = TRUE]]
        ELSE [error |-> r.error, stderr |-> r.stderr,
              calls |-> <<"nvc --cover-report">>, exits |-> <<proc.exit>>,
              log |-> <<<<"Coverage report generation failed", r.stderr>>>>,
              fs |-> made]

\* A report step that copies the database before the subprocess has run.
NVC_generate_coverage_report_publish_first(self, files, proc) ==
    IF ~files.ncdb
    THEN [error |-> None, stderr |-> None, calls |-> <<>>, exits |-> <<>>,
          log |-> <<<<"Warning: Coverage database not found", None>>>>,
          fs |-> files]
    ELSE LET made == [files EXCEPT !.coverage_dir = TRUE, !.result_dir = TRUE,
                                   !.result_ncdb = TRUE]
             r == run(FALSE, proc)
         IN  IF r.error = None
             THEN [error |-> None, stderr |-> None, calls |-> <<"nvc --cover-report">>,
                   exits |-> <<proc.exit>>, log |-> <<>>, fs |-> made]
             ELSE [error |-> r.error, stderr |-> r.stderr,
                   calls |-> <<"nvc --cover-report">>, exits |-> <<proc.exit>>,
                   log |-> <<<<"Coverage report generation failed", r.stderr>>>>,
                   fs |-> made]

NVC_generate_coverage_report(self, files, proc) ==
    IF ~files.ncdb
    THEN [error |-> None, stderr |-> None, calls |-> <<>>, exits |-> <<>>,
          log |-> <<<<"Warning: Coverage database not found", None>>>>,
          fs |-> files]
    ELSE LET made == [files EXCEPT !.coverage_dir = TRUE]
             r == run(FALSE, proc)
         IN  IF r.error = None
             THEN [error |-> None, stderr |-> None, calls |-> <<"nvc --cover-report">>,
                   exits |-> <<proc.exit>>, log |-> <<>>,
                   fs |-> [made EXCEPT !.result_dir = TRUE, !.result_ncdb = TRUE]]
             ELSE [error |-> r.error, stderr |-> r.stderr,
                   calls |-> <<"nvc --cover-report">>, exits |-> <<proc.exit>>,
                   log |-> <<<<"Coverage report generation failed", r.stderr>>>>,
                   fs |-> made]

\* A pipeline that starts genhtml whatever lcov returned.
GHDL_generate_gcc_coverage_report_eager(files, lcov, genhtml) ==
    LET first == run(FALSE, lcov)
        second == run(TRUE, genhtml)
    IN  IF first.error # None
        THEN [error |-> first.error, stderr |-> first.stderr,
              calls |-> <<"lcov", "genhtml">>, exits |-> <<lcov.exit, genhtml.exit>>,
              fs |-> files]
        ELSE IF second.error # None
        THEN [error |-> second.error, stderr |-> second.stderr,
              calls |-> <<"lcov", "genhtml">>, exits |-> <<lcov.exit, genhtml.exit>>,
              fs |-> [files EXCEPT !.coverage_info = TRUE]]
        ELSE [error |-> None, stderr |-> None,
              calls |-> <<"lcov", "genhtml">>, exits |-> <<lcov.exit, genhtml.exit>>,
              fs |-> [files EXCEPT !.coverage_info = TRUE, !.html_report = TRUE]]

\* lcov runs uncaptured, genhtml captured; genhtml starts only after lcov
\* exited with zero.
GHDL_generate_gcc_coverage_report(files, lcov, genhtml) ==
    LET first == run(FALSE, lcov)
        second == run(TRUE, genhtml)
    IN  IF first.error # None
        THEN [error |-> first.error, stderr |-> first.stderr,
              calls |-> <<"lcov">>, exits |-> <<lcov.exit>>, fs |-> files]
        ELSE IF second.error # None
        THEN [error |-> second.error, stderr |-> second.stderr,
              calls |-> <<"lcov", "genhtml">>, exits |-> <<lcov.exit, genhtml.exit>>,
              fs |-> [files EXCEPT !.coverage_info = TRUE]]
        ELSE [error |-> None, stderr |-> None,
              calls |-> <<"lcov", "genhtml">>, exits |-> <<lcov.exit, genhtml.exit>>,
              fs |-> [files EXCEPT !.coverage_info = TRUE, !.html_report = TRUE]]

\* results is the handle of the external framework: whether its
\* merge_coverage succeeds and which backend it reports.
GHDL_generate_coverage_report(self, files, results, lcov, genhtml) ==
    LET made == [files EXCEPT !.coverage_dir = TRUE]
    IN  IF ~results.merge_ok
        THEN [error |-> "Exception", stderr |-> None, calls |-> <<"merge_coverage">>,
              exits |-> <<1>>,
              log |-> <<<<"Coverage report generation failed", None>>>>,
              fs |-> made]
        ELSE IF results.backend = "gcc"
        THEN LET g == GHDL_generate_gcc_coverage_report(made, lcov, genhtml)
             IN  [error |-> g.error, stderr |-> g.stderr,
                  calls |-> <<"merge_coverage">> \o g.calls,
                  exits |-> <<0>> \o g.exits,
                  log |-> IF g.error = None THEN <<>>
                          ELSE <<<<"Coverage report generation failed", None>>>>,
                  fs |-> g.fs]
        ELSE [error |-> None, stderr |-> None, calls |-> <<"merge_coverage">>,
              exits |-> <<0>>, log |-> <<>>, fs |-> made]

Returned(files) ==
    [error |-> None, stderr |-> None, calls |-> <<>>, exits |-> <<>>,
     log |-> <<>>, fs |-> files]

NVC_post_run(self, files, first, proc) ==
    LET copied == copy_output_log(self, files, first)
    IN  IF ~self.enable_coverage \/ self.VU = None
        THEN Returned(copied)
        ELSE NVC_generate_coverage_report(self, copied, proc)

\* A post_run that reports whenever a session is bound.
GHDL_post_run_always(self, files, first, results, lcov, genhtml) ==
    LET copied == copy_output_log(self, files, first)
    IN  IF self.VU = None
        THEN Returned(copied)
        ELSE GHDL_generate_coverage_report(self, copied, results, lcov, genhtml)

GHDL_post_run(self, files, first, results, lcov, genhtml) ==
    LET copied == copy_output_log(self, files, first)
    IN  IF ~self.enable_coverage \/ self.VU = None
        THEN Returned(copied)
        ELSE GHDL_generate_coverage_report(self, copied, results, lcov, genhtml)

\* The files the enumeration may list first: any of those present.
FirstListed == IF fs.outlogs = {} THEN {0} ELSE fs.outlogs

PostRunNVC(first, proc) ==
    /\ Selected
    /\ simulator.kind = NVC
    /\ LET r == NVC_post_run(simulator, fs, first, proc)
       IN  /\ fs' = r.fs
           /\ out' = [Outcome("post_run", None, environ) EXCEPT
                         !.error = r.error, !.stderr = r.stderr,
                         !.calls = r.calls, !.exits = r.exits, !.log = r.log]
    /\ UNCHANGED <<path, environ, simulator, VU>>

PostRunGHDL(first, results, lcov, genhtml) ==
    /\ Selected
    /\ simulator.kind = GHDL
    /\ LET r == GHDL_post_run(simulator, fs, first, results, lcov, genhtml)
           \* results._simulator_if._backend is read only after a merge
           \* that succeeded.
           read == IF r.calls # <<>> /\ r.exits[1] = 0 THEN results.backend ELSE None
       IN  /\ fs' = r.fs
           /\ out' = [Outcome("post_run", read, environ) EXCEPT
                         !.error = r.error, !.stderr = r.stderr,
                         !.calls = r.calls, !.exits = r.exits, !.log = r.log]
    /\ UNCHANGED <<path, environ, simulator, VU>>

---------------------------------------------------------------------------

Init ==
    /\ path \in SUBSET Executables
    /\ environ \in EnvValues
    /\ simulator = NoSimulator
    /\ VU = NewSession
    /\ fs = EmptyFs
    /\ out = Outcome("start", None, environ)

Next ==
    \/ \E name \in Names : SelectSimulator(name)
    \/ SetupSimulator
    \/ \E p \in LibraryPaths : AddUnisimLibrary(p)
    \/ \E p \in LibraryPaths : AddUnifastLibrary(p)
    \/ \E n \in LibraryNames : AddLibrary(n)
    \/ Configure
    \/ \E sp \in Specifications, wf \in BOOLEAN : SetupCoverageNVC(sp, wf)
    \/ \E libraries \in {None, "libraries"} : SetupCoverageGHDL(libraries)
    \/ \E logs \in SUBSET Tests, database \in BOOLEAN : Simulate(logs, database)
    \/ \E first \in FirstListed, proc \in ProcessResults : PostRunNVC(first, proc)
    \/ \E first \in FirstListed, merge_ok \in BOOLEAN, backend \in Backends,
          lcov \in ProcessResults, genhtml \in ProcessResults :
            PostRunGHDL(first, [merge_ok |-> merge_ok, backend |-> backend], lcov, genhtml)

Spec == Init /\ [][Next]_vars

---------------------------------------------------------------------------
\* The lifecycle of the drivers bench/spi/run.py and bench/top_fpga/run.py:
\* the session is bound once by attach, and configure and add_library are
\* then called without a session argument, on the bound handle.

attach(self, session) == [self EXCEPT !.VU = session]

Attach ==
    /\ Configuring
    /\ simulator.VU = None
    /\ simulator' = attach(simulator, Session)
    /\ out' = [Outcome("attach", Session, environ) EXCEPT !.ret = simulator.kind]
    /\ UNCHANGED <<path, environ, VU, fs>>

ConfigureAttached ==
    /\ Configuring
    /\ LET r == configure(simulator, VU, simulator.VU)
       IN  /\ simulator' = r.self
           /\ VU' = r.VU
           /\ out' = [Outcome("configure", simulator.VU, environ) EXCEPT
                         !.error = r.error]
    /\ UNCHANGED <<path, environ, fs>>

AddLibraryAttached(library_name) ==
    /\ Configuring
    /\ LET r == IF library_name = "unisim"
                THEN add_unisim_library(simulator, VU, simulator.VU, NoPath)
                ELSE add_unifast_library(simulator, VU, simulator.VU, NoPath)
       IN  /\ simulator' = r.self
           /\ VU' = r.VU
           /\ out' = [Outcome("add_library", simulator.VU, environ) EXCEPT
                         !.error = r.error]
    /\ UNCHANGED <<path, environ, fs>>

NextAttach ==
    \/ \E name \in Names : SelectSimulator(name)
    \/ Attach
    \/ ConfigureAttached
    \/ \E n \in {"unisim", "unifast"} : AddLibraryAttached(n)
    \/ \E logs \in SUBSET Tests, database \in BOOLEAN : Simulate(logs, database)
    \/ \E first \in FirstListed, proc \in ProcessResults : PostRunNVC(first, proc)
    \/ \E first \in FirstListed, merge_ok \in BOOLEAN, backend \in Backends,
          lcov \in ProcessResults, genhtml \in ProcessResults :
            PostRunGHDL(first, [merge_ok |-> merge_ok, backend |-> backend], lcov, genhtml)

SpecAttach == Init /\ [][NextAttach]_vars

---------------------------------------------------------------------------
\* The same lifecycle in an environment where an output.txt may be unreadable.
\* copy_output_log reads only the file listed first, so an unreadable file
\* matters only when it is that one: shutil.copy2 then raises after
\* result_dir was created, nothing catches it in copy_output_log or in
\* post_run, and the report step is never reached.

copy_output_log_unreadable(self, files, first) ==
    [error |-> "PermissionError", stderr |-> None, calls |-> <<>>, exits |-> <<>>,
     log |-> <<>>, fs |-> [files EXCEPT !.result_dir = TRUE]]

PostRunUnreadable(first) ==
    /\ Selected
    /\ simulator.VU # None
    /\ fs.outlogs # {}
    /\ LET r == copy_output_log_unreadable(simulator, fs, first)
       IN  /\ fs' = r.fs
           /\ out' = [Outcome("post_run", None, environ) EXCEPT
                         !.error = r.error, !.stderr = r.stderr,
                         !.calls = r.calls, !.exits = r.exits, !.log = r.log]
    /\ UNCHANGED <<path, environ, simulator, VU>>

NextUnreadable ==
    \/ Next
    \/ \E first \in FirstListed : PostRunUnreadable(first)

SpecUnreadable == Init /\ [][NextUnreadable]_vars

---------------------------------------------------------------------------
\* The lifecycle of a driver built on the free functions of bench/utils.py:
\* setup_simulator, the run of VU.main, then post_run_callback.

\* Values of the VUNIT_SIMULATOR parameter of post_run_callback.
SimulatorNames == {"nvc", "ghdl", "modelsim"}

RunTests(logs, database) ==
    /\ out.op = "setup_simulator"
    /\ out.error = None
    /\ fs' = [fs EXCEPT !.outlogs = logs, !.ncdb = database]
    /\ out' = Outcome("main", None, environ)
    /\ UNCHANGED <<path, environ, simulator, VU>>

\* The executable is looked up first; the output folder is created before the
\* subprocess starts; a non-zero exit becomes RuntimeError.
generate_coverage_report_nvc(files, proc) ==
    IF ~which("nvc")
    THEN [error |-> "FileNotFoundError", exits |-> <<>>, log |-> <<>>, fs |-> files]
    ELSE LET made == [files EXCEPT !.coverage_dir = TRUE]
             r == run(FALSE, proc)
         IN  IF r.error = None
             THEN [error |-> None, exits |-> <<proc.exit>>,
                   log |-> <<"Coverage report generated">>, fs |-> made]
             ELSE [error |-> "RuntimeError", exits |-> <<proc.exit>>,
                   log |-> <<>>, fs |-> made]

\* A copy helper that gives up when the database copy fails.
copy_to_result_dir_abort(files, first, mkdir_fails, ncdb_copy_fails, log_copy_fails) ==
    IF mkdir_fails
    THEN [error |-> "OSError", log |-> <<"Error creating result directory">>,
          fs |-> files]
    ELSE IF files.ncdb /\ ncdb_copy_fails
    THEN [error |-> None, log |-> <<"Error copying NCDB file">>,
          fs |-> [files EXCEPT !.result_dir = TRUE]]
    ELSE LET made == [files EXCEPT !.result_dir = TRUE]
             db == IF files.ncdb
                   THEN [log |-> <<"Copied NCDB file">>,
                         fs |-> [made EXCEPT !.result_ncdb = TRUE]]
                   ELSE [log |-> <<"Warning: NCDB file not found">>, fs |-> made]
             txt == IF db.fs.outlogs = {}
                    THEN [log |-> <<"Warning: No output.txt file found">>, fs |-> db.fs]
                    ELSE IF log_copy_fails
                    THEN [log |-> <<"Error copying output file">>, fs |-> db.fs]
                    ELSE [log |-> <<"Copied output file">>,
                          fs |-> [db.fs EXCEPT !.result_log = first]]
         IN  [error |-> None, log |-> db.log \o txt.log, fs |-> txt.fs]

\* Only the mkdir of result_dir re-raises; each copy catches its own failure
\* and writes a message.
copy_to_result_dir(files, first, mkdir_fails, ncdb_copy_fails, log_copy_fails) ==
    IF mkdir_fails
    THEN [error |-> "OSError", log |-> <<"Error creating result directory">>,
          fs |-> files]
    ELSE LET made == [files EXCEPT !.result_dir = TRUE]
             db == IF ~files.ncdb
                   THEN [log |-> <<"Warning: NCDB file not found">>, fs |-> made]
                   ELSE IF ncdb_copy_fails
                   THEN [log |-> <<"Error copying NCDB file">>, fs |-> made]
                   ELSE [log |-> <<"Copied NCDB file">>,
                         fs |-> [made EXCEPT !.result_ncdb = TRUE]]
             txt == IF db.fs.outlogs = {}
                    THEN [log |-> <<"Warning: No output.txt file found">>, fs |-> db.fs]
                    ELSE IF log_copy_fails
                    THEN [log |-> <<"Error copying output file">>, fs |-> db.fs]
                    ELSE [log |-> <<"Copied output file">>,
                          fs |-> [db.fs EXCEPT !.result_log = first]]
         IN  [error |-> None, log |-> db.log \o txt.log, fs |-> txt.fs]

\* A callback that copies before it reports.
post_run_callback_copy_first(name, files, first, proc, mkdir_fails, ncdb_copy_fails, log_copy_fails) ==
    LET c == copy_to_result_dir(files, first, mkdir_fails, ncdb_copy_fails, log_copy_fails)
        g == generate_coverage_report_nvc(c.fs, proc)
    IN  IF c.error # None
        THEN [error |-> c.error, calls |-> <<"copy_to_result_dir">>, exits |-> <<>>,
              log |-> c.log, fs |-> c.fs]
        ELSE IF name # "nvc"
        THEN [error |-> None, calls |-> <<"copy_to_result_dir">>, exits |-> <<>>,
              log |-> c.log, fs |-> c.fs]
        ELSE [error |-> g.error,
              calls |-> <<"copy_to_result_dir", "generate_coverage_report_nvc">>,
              exits |-> g.exits, log |-> c.log \o g.log, fs |-> g.fs]

\* calls lists the functions post_run_callback entered, exits the exit codes
\* of the subprocesses they started.
post_run_callback(name, files, first, proc, mkdir_fails, ncdb_copy_fails, log_copy_fails) ==
    LET g == IF name = "nvc"
             THEN generate_coverage_report_nvc(files, proc)
             ELSE [error |-> None, exits |-> <<>>, log |-> <<>>, fs |-> files]
        entered == IF name = "nvc" THEN <<"generate_coverage_report_nvc">> ELSE <<>>
        c == copy_to_result_dir(g.fs, first, mkdir_fails, ncdb_copy_fails, log_copy_fails)
    IN  IF g.error # None
        THEN [error |-> g.error, calls |-> entered, exits |-> g.exits,
              log |-> g.log, fs |-> g.fs]
        ELSE [error |-> c.error, calls |-> entered \o <<"copy_to_result_dir">>,
              exits |-> g.exits, log |-> g.log \o c.log, fs |-> c.fs]

PostRunCallback(name, first, proc, mkdir_fails, ncdb_copy_fails, log_copy_fails) ==
    /\ out.op = "main"
    /\ simulator.kind = None
    /\ LET r == post_run_callback(name, fs, first, proc, mkdir_fails, ncdb_copy_fails,
                                  log_copy_fails)
       IN  /\ fs' = r.fs
           /\ out' = [Outcome("post_run_callback", name, environ) EXCEPT
                         !.error = r.error, !.calls = r.calls,
                         !.exits = r.exits, !.log = r.log]
    /\ UNCHANGED <<path, environ, simulator, VU>>

NextUtils ==
    \/ SetupSimulator
    \/ \E logs \in SUBSET Tests, database \in BOOLEAN : RunTests(logs, database)
    \/ \E name \in SimulatorNames, first \in FirstListed, proc \in ProcessResults,
          mkdir_fails \in BOOLEAN, ncdb_copy_fails \in BOOLEAN,
          log_copy_fails \in BOOLEAN :
            PostRunCallback(name, first, proc, mkdir_fails, ncdb_copy_fails,
                            log_copy_fails)

SpecUtils == Init /\ [][NextUtils]_vars

---------------------------------------------------------------------------
\* Properties.

\* C1: select_simulator(K) for K in {nvc, ghdl}: with K's executable on the
\* search path it returns a simulator of kind K and VUNIT_SIMULATOR equals K;
\* with the executable absent it raises SystemExit, returns no simulator and
\* VUNIT_SIMULATOR keeps the value it had before the call.
C1_SelectKnownKind ==
    (out.op = "select_simulator" /\ out.arg \in {NVC, GHDL}) =>
        IF which(out.arg)
        THEN /\ out.error = None
             /\ out.ret = out.arg
             /\ simulator.kind = out.arg
             /\ environ = out.arg
        ELSE /\ out.error = "SystemExit"
             /\ out.ret = None
             /\ simulator = NoSimulator
             /\ environ = out.envBefore

C1_Witness ==
    /\ out.op = "select_simulator"
    /\ out.arg = NVC
    /\ ~which(NVC)
    /\ out.error = "SystemExit"
    /\ out.envBefore = GHDL
    /\ environ = GHDL

\* C2: select_simulator() with no name picks nvc whenever nvc resolves, ghdl
\* only when nvc does not resolve and ghdl does, and with neither it raises
\* SystemExit after the two lookups, builds no simulator and leaves
\* VUNIT_SIMULATOR as it was.
C2_AutodetectPriority ==
    (out.op = "select_simulator" /\ out.arg = None) =>
        /\ which("nvc") => (out.ret = NVC /\ simulator.kind = NVC /\ environ = NVC)
        /\ (~which("nvc") /\ which("ghdl")) =>
               (out.ret = GHDL /\ simulator.kind = GHDL /\ environ = GHDL)
        /\ out.ret = GHDL => (~which("nvc") /\ which("ghdl"))
        /\ (~which("nvc") /\ ~which("ghdl")) =>
               /\ out.error = "SystemExit"
               /\ out.ret = None
               /\ simulator = NoSimulator
               /\ out.probes = <<"nvc", "ghdl">>
               /\ environ = out.envBefore

C2_Witness ==
    /\ out.op = "select_simulator"
    /\ out.arg = None
    /\ ~which("nvc")
    /\ which("ghdl")
    /\ out.ret = GHDL
    /\ simulator.kind = GHDL

\* C3: with no name given and VUNIT_SIMULATOR already naming a backend whose
\* executable resolves, the value returned and the backend left in
\* VUNIT_SIMULATOR are the override (select_simulator and setup_simulator
\* alike).
C3_OverrideWins ==
    (/\ out.op \in {"select_simulator", "setup_simulator"}
     /\ out.arg = None
     /\ out.envBefore # None
     /\ which(out.envBefore)
     /\ out.error = None) =>
        (out.ret = out.envBefore /\ environ = out.envBefore)

\* C4: select_simulator with a name that is neither nvc nor ghdl raises
\* ValueError, builds no simulator, looks up no executable and leaves
\* VUNIT_SIMULATOR as it was.
C4_UnknownName ==
    (out.op = "select_simulator" /\ out.arg # None /\ lower(out.arg) \notin {NVC, GHDL}) =>
        /\ out.error = "ValueError"
        /\ out.ret = None
        /\ simulator = NoSimulator
        /\ out.probes = <<>>
        /\ environ = out.envBefore

C4_Witness ==
    /\ out.op = "select_simulator"
    /\ out.arg = "modelsim"
    /\ out.error = "ValueError"
    /\ which("nvc")
    /\ out.envBefore = None
    /\ environ = None

C6_ReportOnlyIfCoverageAtConstruction ==
    (out.op = "post_run" /\ out.calls # <<>>) =>
        Init_fields(simulator.kind).enable_coverage

\* C7: when the session was configured and per-test output.txt files exist
\* as post_run is called, the result directory holds output.txt after it.
C7_LogAlwaysCollected ==
    (/\ out.op = "post_run"
     /\ VU.nvc_global_flags # NoFlags \/ VU.ghdl_a_flags # NoFlags
     /\ fs.outlogs # {}) =>
        (fs.result_dir /\ fs.result_log \in fs.outlogs)

\* C8: post_run on a simulator whose coverage is not enabled returns normally
\* and starts no report step: no subprocess, no coverage merge, no report
\* directory.
C8_NoCoverageNoReport ==
    (out.op = "post_run" /\ ~simulator.enable_coverage) =>
        /\ out.error = None
        /\ out.calls = <<>>
        /\ ~fs.coverage_dir
        /\ ~fs.result_ncdb

C8_Witness ==
    /\ out.op = "post_run"
    /\ simulator.kind = GHDL
    /\ ~simulator.enable_coverage
    /\ simulator.VU = Session
    /\ fs.ncdb
    /\ fs.result_log # 0
    /\ out.error = None

\* C9: when the nvc report subprocess exits non-zero, post_run raises and the
\* exception carries the diagnostic text the subprocess wrote.
C9_FailureCarriesDiagnostic ==
    (/\ out.op = "post_run"
     /\ simulator.kind = NVC
     /\ out.calls = <<"nvc --cover-report">>
     /\ out.exits # <<0>>) =>
        /\ out.error # None
        /\ out.stderr \in {p.stderr : p \in {q \in ProcessResults : q.exit # 0}}

\* C10: nvc report generation with the coverage database missing returns
\* normally with a warning, starts no subprocess, creates no report directory
\* and copies no database; the result directory holds at most the log that
\* post_run copied before.
C10_MissingDatabase ==
    (/\ out.op = "post_run"
     /\ simulator.kind = NVC
     /\ simulator.enable_coverage
     /\ simulator.VU # None
     /\ ~fs.ncdb) =>
        /\ out.error = None
        /\ out.calls = <<>>
        /\ out.log = <<<<"Warning: Coverage database not found", None>>>>
        /\ ~fs.coverage_dir
        /\ ~fs.result_ncdb
        /\ fs.result_dir => fs.result_log # 0

C10_Witness ==
    /\ out.op = "post_run"
    /\ simulator.kind = NVC
    /\ simulator.enable_coverage
    /\ simulator.VU = Session
    /\ ~fs.ncdb
    /\ fs.outlogs # {}
    /\ fs.result_log # 0
    /\ out.log # <<>>

\* C11: after an nvc coverage post_run whose report subprocess succeeded, with
\* test logs present, the result directory holds output.txt, the copy of the
\* coverage database and the coverage_report tree.
C11_ResultDirLayout ==
    (/\ out.op = "post_run"
     /\ simulator.kind = NVC
     /\ out.calls = <<"nvc --cover-report">>
     /\ out.exits = <<0>>
     /\ fs.outlogs # {}) =>
        /\ fs.result_dir
        /\ fs.result_log # 0
        /\ fs.result_ncdb
        /\ fs.result_report

\* C12: on an nvc simulator, once coverage has been requested nvc.elab_flags
\* holds both the composite --cover flag and the --cover-file flag; while
\* coverage has not been requested it holds neither.
C12_CoverageFlags ==
    simulator.kind = NVC =>
        IF simulator.enable_coverage
        THEN /\ \E i \in DOMAIN VU.nvc_elab_flags : VU.nvc_elab_flags[i] = COVER_FLAG
             /\ \E i \in DOMAIN VU.nvc_elab_flags : VU.nvc_elab_flags[i] = COVER_FILE_FLAG
        ELSE \A i \in DOMAIN VU.nvc_elab_flags :
                VU.nvc_elab_flags[i] \notin {COVER_FLAG, COVER_FILE_FLAG}

\* C13: every nvc setup_coverage that returns after being given a non-empty
\* rule list leaves coverage.spec holding exactly those rules in the given
\* order, each followed by a newline, and nvc.elab_flags holding the
\* --cover-spec flag with that file's path; given no rules it writes no
\* specification file and applies no --cover-spec flag.
C13_SpecFile ==
    [][\A sp \in Specifications, wf \in BOOLEAN :
         (SetupCoverageNVC(sp, wf) /\ out'.error = None) =>
            IF sp.given /\ sp.rules # <<>>
            THEN /\ Len(fs'.spec_file) = 2 * Len(sp.rules)
                 /\ \A i \in DOMAIN sp.rules :
                       /\ fs'.spec_file[2 * i - 1] = sp.rules[i]
                       /\ fs'.spec_file[2 * i] = "\n"
                 /\ \E i \in DOMAIN VU'.nvc_elab_flags :
                       VU'.nvc_elab_flags[i] = COVER_SPEC_FLAG
            ELSE /\ fs'.spec_file = fs.spec_file
                 /\ \A i \in DOMAIN VU'.nvc_elab_flags :
                       VU'.nvc_elab_flags[i] # COVER_SPEC_FLAG]_vars

C13_Witness ==
    /\ out.op = "setup_coverage"
    /\ out.error = None
    /\ simulator.kind = NVC
    /\ fs.spec_file = <<"+hierarchy A.B.*", "\n", "-hierarchy A.B.C.*", "\n">>
    /\ VU.nvc_elab_flags = <<COVER_FLAG, COVER_FILE_FLAG, COVER_SPEC_FLAG>>

\* C14: an nvc setup_coverage whose write of the specification file fails
\* still returns normally and leaves nvc.elab_flags holding the composite
\* --cover flag and the --cover-file flag, without --cover-spec.
C14_WriteFailureNonFatal ==
    [][\A sp \in Specifications :
         (SetupCoverageNVC(sp, TRUE) /\ sp.given /\ sp.rules # <<>>) =>
            /\ out'.error = None
            /\ VU'.nvc_elab_flags = <<COVER_FLAG, COVER_FILE_FLAG>>]_vars

\* C15: on an nvc simulator, in whatever order configure and setup_coverage
\* were called, run_all_in_same_sim is true once coverage is enabled and is
\* false once configure has run with coverage not enabled.
C15_SameSimIffCoverage ==
    simulator.kind = NVC =>
        /\ simulator.enable_coverage => VU.run_all_in_same_sim = "true"
        /\ (~simulator.enable_coverage /\ VU.nvc_global_flags # NoFlags) =>
              VU.run_all_in_same_sim = "false"

C15_Witness ==
    /\ simulator.kind = NVC
    /\ simulator.enable_coverage
    /\ out.op = "configure"
    /\ out.error = None
    /\ VU.nvc_global_flags # NoFlags
    /\ VU.nvc_elab_flags # NoFlags
    /\ VU.run_all_in_same_sim = "true"

\* C16: on a ghdl simulator that has been configured, ghdl.a_flags holds
\* --warn-no-hide, and whenever a vendor library is in use, whether it was
\* added before or after configure, the compile flags and ghdl.elab_flags
\* hold -fsynopsys and -frelaxed.
C16_VendorLibraryFlags ==
    (simulator.kind = GHDL /\ VU.ghdl_a_flags # NoFlags) =>
        /\ \E i \in DOMAIN VU.ghdl_a_flags : VU.ghdl_a_flags[i] = "--warn-no-hide"
        /\ (simulator.uses_unisim \/ simulator.uses_unifast) =>
              \A f \in {"-fsynopsys", "-frelaxed"} :
                 /\ \E i \in DOMAIN VU.ghdl_a_flags : VU.ghdl_a_flags[i] = f
                 /\ \E i \in DOMAIN VU.ghdl_elab_flags : VU.ghdl_elab_flags[i] = f

\* C17: every ghdl post_run that generates a coverage report calls
\* merge_coverage first.  With merge done and the gcc backend it then starts
\* lcov, and genhtml only after lcov exited with zero, and it raises exactly
\* when one of the two exited non-zero.  With any other backend it starts no
\* subprocess and, merge done, returns normally.  A failed merge raises and
\* starts no subprocess.
C17_GhdlReportPipeline ==
    (/\ out.op = "post_run"
     /\ simulator.kind = GHDL
     /\ simulator.enable_coverage
     /\ simulator.VU # None) =>
        /\ out.calls # <<>>
        /\ out.calls[1] = "merge_coverage"
        /\ IF out.exits[1] # 0
           THEN out.calls = <<"merge_coverage">> /\ out.error # None
           ELSE IF out.arg = "gcc"
           THEN /\ out.calls = IF out.exits[2] = 0
                                THEN <<"merge_coverage", "lcov", "genhtml">>
                                ELSE <<"merge_coverage", "lcov">>
                /\ (out.error # None) <=> (\E i \in DOMAIN out.exits : out.exits[i] # 0)
           ELSE /\ out.arg \in Backends
                /\ out.calls = <<"merge_coverage">>
                /\ out.error = None

C17_Witness ==
    /\ out.op = "post_run"
    /\ simulator.kind = GHDL
    /\ simulator.enable_coverage
    /\ out.arg = "gcc"
    /\ out.calls = <<"merge_coverage", "lcov">>
    /\ out.exits = <<0, 1>>
    /\ out.error = "CalledProcessError"
    /\ ~fs.html_report

\* C18: add_unisim_library and add_unifast_library called without a path
\* register the default path of that library for the simulator's backend,
\* with its leading ~ replaced by the home directory; called with a path
\* they register that path, expanded the same way, instead of the default.
C18_DefaultLibraryPath ==
    [][\A p \in LibraryPaths :
         LET given == IF Head(p) = "~" THEN <<HOME>> \o Tail(p) ELSE p
         IN  /\ (AddUnisimLibrary(p) /\ out'.error = None) =>
                   VU'.unisim =
                      IF p # NoPath THEN given
                      ELSE IF simulator.kind = NVC
                           THEN <<HOME, ".nvc/lib/unisim.08">>
                           ELSE <<HOME, ".ghdl/xilinx-vivado/unisim/v08">>
             /\ (AddUnifastLibrary(p) /\ out'.error = None) =>
                   VU'.unifast =
                      IF p # NoPath THEN given
                      ELSE IF simulator.kind = NVC
                           THEN <<HOME, ".nvc/lib/unifast.08">>
                           ELSE <<HOME, ".ghdl/xilinx-vivado/unifast/v08">>]_vars

C18_Witness ==
    /\ out.op = "add_unisim_library"
    /\ out.error = None
    /\ simulator.kind = GHDL
    /\ simulator.uses_unisim
    /\ VU.unisim = <<HOME, ".ghdl/xilinx-vivado/unisim/v08">>
    /\ VU.unifast = <<HOME, "xilinx/lib">>

\* C19: add_library for a library name that has no default path, called
\* without a path, returns normally: no exception leaves the call.
C19_MissingPathNonFatal ==
    (out.op = "add_library" /\ out.arg \in LibraryNames) => out.error = None

\* C20: a post_run that collects the log on a bound session and finds no
\* output.txt reports a warning, returns normally and creates neither
\* output.txt nor the result directory.
C20_NoLogsWarning ==
    (/\ out.op = "post_run"
     /\ simulator.VU # None
     /\ ~simulator.enable_coverage
     /\ fs.outlogs = {}) =>
        /\ out.error = None
        /\ out.log # <<>>
        /\ ~fs.result_dir
        /\ fs.result_log = 0

\* C21: after a post_run that collected the log on a bound session,
\* output.txt holds every discovered output.txt and nothing else, so it does
\* not depend on which file the enumeration listed first.
C21_MergeComplete ==
    (/\ out.op = "post_run"
     /\ simulator.VU # None
     /\ fs.outlogs # {}) =>
        /\ fs.result_log # 0
        /\ \A t \in fs.outlogs : t = fs.result_log

\* C22: a post_run that collects the log while one of the discovered
\* output.txt files is unreadable returns normally and leaves an output.txt
\* in the result directory.
C22_UnreadableNeverAborts ==
    [][\A first \in FirstListed :
         PostRunUnreadable(first) =>
            /\ out'.error = None
            /\ fs'.result_log # 0]_vars

C25_LogCopyNeedsHandle ==
    /\ (simulator.kind = NVC /\ ~simulator.enable_coverage) =>
          /\ simulator.VU = None
          /\ out.op = "post_run" =>
                /\ out.error = None
                /\ out.calls = <<>>
                /\ ~fs.result_dir
                /\ fs.result_log = 0
                /\ ~fs.result_ncdb
                /\ ~fs.coverage_dir
    /\ (simulator.kind = GHDL /\ VU.ghdl_a_flags # NoFlags) =>
          /\ simulator.VU = Session
          /\ (out.op = "post_run" /\ fs.outlogs # {}) =>
                /\ fs.result_dir
                /\ fs.result_log \in fs.outlogs

C25_Witness ==
    /\ out.op = "post_run"
    /\ simulator.kind = NVC
    /\ VU.nvc_global_flags # NoFlags
    /\ ~simulator.enable_coverage
    /\ fs.outlogs # {}
    /\ fs.result_log = 0
    /\ ~fs.result_dir
    /\ out.error = None

\* C26: an nvc post_run copies the coverage database into the result
\* directory exactly when its report subprocess exited with zero.  When the
\* subprocess failed, or was never started, the copy in the result directory
\* is as it was before that post_run, while the output log the same post_run
\* copied is in place.
C26_PublishAfterReport ==
    [][(out'.op = "post_run" /\ simulator.kind = NVC) =>
          IF out'.calls = <<"nvc --cover-report">> /\ out'.exits = <<0>>
          THEN fs'.result_ncdb /\ fs'.result_dir
          ELSE /\ fs'.result_ncdb = fs.result_ncdb
               /\ (out'.calls # <<>> /\ fs.outlogs # {}) =>
                     /\ out'.error # None
                     /\ fs'.result_log \in fs.outlogs]_vars

C26_Witness ==
    /\ out.op = "post_run"
    /\ simulator.kind = NVC
    /\ out.calls = <<"nvc --cover-report">>
    /\ out.exits = <<1>>
    /\ out.error # None
    /\ fs.ncdb
    /\ ~fs.result_ncdb
    /\ fs.result_log # 0

\* C27: an nvc setup_coverage whose write of the specification file fails
\* raises and leaves nvc.elab_flags as it was, yet enable_coverage is true,
\* the session is bound and run_all_in_same_sim is true.  An nvc post_run
\* with coverage enabled and no coverage flag ever applied still enters the
\* report step: it starts the subprocess, or warns that the database is
\* missing.
C27_SetupNotAtomic ==
    [][/\ \A sp \in Specifications :
            (SetupCoverageNVC(sp, TRUE) /\ sp.given /\ sp.rules # <<>>) =>
               /\ out'.error = "RuntimeError"
               /\ VU'.nvc_elab_flags = VU.nvc_elab_flags
               /\ fs'.spec_file = fs.spec_file
               /\ simulator'.enable_coverage
               /\ simulator'.VU = Session
               /\ VU'.run_all_in_same_sim = "true"
       /\ (/\ out'.op = "post_run"
           /\ simulator.kind = NVC
           /\ simulator.enable_coverage
           /\ VU.nvc_elab_flags = NoFlags) =>
              IF fs.ncdb
              THEN out'.calls = <<"nvc --cover-report">>
              ELSE out'.log = <<<<"Warning: Coverage database not found", None>>>>]_vars

C27_Witness ==
    /\ out.op = "post_run"
    /\ simulator.kind = NVC
    /\ simulator.enable_coverage
    /\ VU.nvc_elab_flags = NoFlags
    /\ VU.run_all_in_same_sim = "true"
    /\ out.calls = <<"nvc --cover-report">>

====
